---- MODULE Spec2Model ----
(***************************************************************************)
(* NERDataset (assignment3/dataset.py): overlap resolution of character    *)
(* span annotations, alignment of the spans with tokenizer offsets, IOBES  *)
(* encoding, the tag vocabulary, truncation of a sample and collation of   *)
(* a batch.                                                                *)
(*                                                                         *)
(* An annotation is the tuple <<start, end, entity_type>> that             *)
(* parse_annotations builds from one "start end entity_type" string.  A    *)
(* tag is the string "O" or prefix \o entity_type ('S-' + tag and so on).  *)
(* Python lists are sequences: Python index i is index i + 1 here.         *)
(***************************************************************************)
EXTENDS Integers, Sequences, FiniteSets, TLC

\* ---------------------------------------------------------------- bounds
\* parse_annotations called on its own: character offsets 0..MaxPos and at
\* most MaxAnn annotations
MaxPos == 2
MaxAnn == 3
\* a tokenized text: characters 0..MaxOffset, at most MaxTok word tokens
\* between [CLS] and [SEP], at most MaxEntities annotations of the text
MaxOffset == 3
MaxTok == 3
MaxEntities == 2
\* _convert_to_iobes called on its own: at most MaxLabels labels
MaxLabels == 4
\* ner_tags.txt: at most MaxTypes lines; convert_ids_to_tags: at most MaxIds ids
MaxTypes == 3
MaxIds == 2
\* _truncate_output: sequences of at most MaxSeq ids, max_length in 0..MaxLength
MaxSeq == 3
MaxLength == 4
\* collate_batch: at most MaxBatch samples of at most MaxRow ids each
MaxBatch == 2
MaxRow == 2

\* entity type names
Types == {"PER", "LOC"}

VARIABLES
    pc,                     \* the operation about to run, then its outcome
    annotations,            \* parse_annotations / __getitem__: the raw annotations
    sort,                   \* parse_annotations: the flag
    filtered_annotations,   \* parse_annotations: first result
    parsed_annotations,     \* parse_annotations: second result
    tok,                    \* zip(special_tokens, offsets): one record per token
    annotation,             \* convert_to_token_level: the annotation argument
    token_level_annotations,        \* convert_to_token_level: labels before encoding
    token_level_annotations_iobes,  \* convert_to_token_level: the result
    labels,                 \* _convert_to_iobes: the argument
    iobes_tags,             \* _convert_to_iobes: the result
    tags,                   \* __init__: the lines of ner_tags.txt
    tags2id,                \* self.tags2id
    id2tags,                \* self.id2tags
    ids,                    \* convert_ids_to_tags: the argument
    tag_names,              \* convert_ids_to_tags: the result
    sample,                 \* _truncate_output: the argument
    max_length,             \* self.max_length
    mode,                   \* self.mode
    return_all,             \* self.return_all
    res,                    \* _truncate_output / __getitem__: the result
    batch,                  \* collate_batch: the argument
    output                  \* collate_batch: the result

parseVars == <<annotations, sort, filtered_annotations, parsed_annotations>>
alignVars == <<tok, annotation, token_level_annotations, token_level_annotations_iobes>>
iobesVars == <<labels, iobes_tags>>
vocabVars == <<tags, tags2id, id2tags, ids, tag_names>>
truncVars == <<sample, max_length, mode, return_all, res>>
collateVars == <<batch, output>>
vars == <<pc, parseVars, alignVars, iobesVars, vocabVars, truncVars, collateVars>>

\* ------------------------------------------------------------- helpers
SeqsUpTo(S, n) == UNION {[1..k -> S] : k \in 0..n}

Range(s) == {s[i] : i \in 1..Len(s)}

Min(a, b) == IF a <= b THEN a ELSE b
Max(a, b) == IF a >= b THEN a ELSE b

\* Python's sorted(xs, key=...): ascending by key, stable; keys[i] is the key
\* of xs[i].  The element at input index i goes to the position counting
\* the elements that precede it.
Rank(keys, i) ==
    1 + Cardinality({j \in 1..Len(keys) :
            \/ keys[j] < keys[i]
            \/ keys[j] = keys[i] /\ j < i})

sorted(xs, keys) ==
    [p \in 1..Len(xs) |-> xs[CHOOSE i \in 1..Len(xs) : Rank(keys, i) = p]]

\* Python's xs[:n]
SlicePrefix(xs, n) ==
    IF n >= 0 THEN SubSeq(xs, 1, Min(n, Len(xs)))
    ELSE SubSeq(xs, 1, Max(0, Len(xs) + n))

\* Python's xs[n:], n >= 0
SliceFrom(xs, n) == SubSeq(xs, n + 1, Len(xs))

\* ------------------------------------------------- NERDataset._overlap
\* a variant testing half-open spans: touching boundaries do not overlap
_overlap_half_open(a, b) ==
    \/ a[1] <= b[1] /\ b[1] < a[2]
    \/ b[1] <= a[1] /\ a[1] < b[2]

_overlap(a, b) ==
    \/ a[1] <= b[1] /\ b[1] <= a[2]
    \/ b[1] <= a[1] /\ a[1] <= b[2]

\* ------------------------------------------ NERDataset.parse_annotations
\* the annotations of a text of n characters: start <= end, any entity type
AllAnnotations(n) ==
    {a \in (0..n) \X (0..n) \X Types : a[1] <= a[2]}

SpanLength(x) == x[2] - x[1]
SpanStart(x) == x[1]

\* sorted(xs, key=lambda x: x[1] - x[0]) and sorted(xs, key=lambda x: x[0])
SortedByLength(xs) == sorted(xs, [i \in 1..Len(xs) |-> SpanLength(xs[i])])
SortedByStart(xs) == sorted(xs, [i \in 1..Len(xs) |-> SpanStart(xs[i])])

\* the loop "for annotation in parsed_annotations": the annotation at index
\* i is appended when it overlaps nothing accepted so far
RECURSIVE FilterLoop(_, _, _)
FilterLoop(parsed, i, filtered) ==
    IF i > Len(parsed) THEN filtered
    ELSE LET a == parsed[i]
             overlaps == Cardinality({j \in 1..Len(filtered) :
                                        _overlap(a, filtered[j])})
         IN  FilterLoop(parsed, i + 1,
                        IF overlaps = 0 THEN Append(filtered, a)
                        ELSE filtered)

\* a variant that filters the annotations in input order, not by length
parse_annotations_unsorted(anns, srt) ==
    LET filtered == FilterLoop(anns, 1, <<>>)
    IN  <<IF srt THEN SortedByStart(filtered) ELSE filtered, anns>>

\* a variant that accepts every annotation
parse_annotations_keep_all(anns, srt) ==
    LET parsed == SortedByLength(anns)
    IN  <<IF srt THEN SortedByStart(parsed) ELSE parsed, parsed>>

\* <<filtered_annotations, parsed_annotations>>
parse_annotations(anns, srt) ==
    LET parsed == SortedByLength(anns)
        filtered == FilterLoop(parsed, 1, <<>>)
    IN  <<IF srt THEN SortedByStart(filtered) ELSE filtered, parsed>>

\* ------------------------------------------ NERDataset._convert_to_iobes
RECURSIVE IobesLoop(_, _, _)
IobesLoop(tgs, i, acc) ==
    IF i > Len(tgs) THEN acc
    ELSE LET tag == tgs[i]
             length == Len(tgs)
         IN  IobesLoop(tgs, i + 1,
                IF tag = "O" THEN Append(acc, tag)
                ELSE IF i = 1 \/ tgs[i - 1] # tag
                     THEN IF i = length \/ tgs[i + 1] # tag
                          THEN Append(acc, "S-" \o tag)
                          ELSE Append(acc, "B-" \o tag)
                     ELSE IF i = length \/ tgs[i + 1] # tag
                          THEN Append(acc, "E-" \o tag)
                          ELSE Append(acc, "I-" \o tag))

\* a variant that closes a run with I- instead of E-
RECURSIVE IobesLoopNoEnd(_, _, _)
IobesLoopNoEnd(tgs, i, acc) ==
    IF i > Len(tgs) THEN acc
    ELSE LET tag == tgs[i]
         IN  IobesLoopNoEnd(tgs, i + 1,
                IF tag = "O" THEN Append(acc, tag)
                ELSE IF i = 1 \/ tgs[i - 1] # tag
                     THEN IF i = Len(tgs) \/ tgs[i + 1] # tag
                          THEN Append(acc, "S-" \o tag)
                          ELSE Append(acc, "B-" \o tag)
                     ELSE Append(acc, "I-" \o tag))

_convert_to_iobes_no_end(tgs) == IobesLoopNoEnd(tgs, 1, <<>>)

\* a variant that emits nothing for an "O" label
_convert_to_iobes_skip_o(tgs) ==
    SelectSeq(IobesLoop(tgs, 1, <<>>), LAMBDA t : t # "O")

_convert_to_iobes(tgs) == IobesLoop(tgs, 1, <<>>)

\* ------------------------------------- NERDataset.convert_to_token_level
None == 0

Token(special, s, e) ==
    [special_token |-> special, start_offset |-> s, end_offset |-> e]

\* the scan "for i, (special_token, (start_offset, end_offset)) in ...":
\* <<start_token_idx, end_token_idx>> when the loop ends
RECURSIVE ScanLoop(_, _, _, _, _)
ScanLoop(tk, start, end, i, start_token_idx) ==
    IF i > Len(tk) THEN <<start_token_idx, None>>
    ELSE IF tk[i].special_token = 1
         THEN ScanLoop(tk, start, end, i + 1, start_token_idx)
         ELSE LET s2 == IF tk[i].start_offset = start THEN i
                        ELSE start_token_idx
              IN  IF tk[i].end_offset = end THEN <<s2, i>>
                  ELSE ScanLoop(tk, start, end, i + 1, s2)

\* a variant that keeps scanning for a start after the end was found
RECURSIVE ScanLoopNoBreak(_, _, _, _, _)
ScanLoopNoBreak(tk, start, end, i, idx) ==
    IF i > Len(tk) THEN idx
    ELSE IF tk[i].special_token = 1
         THEN ScanLoopNoBreak(tk, start, end, i + 1, idx)
         ELSE ScanLoopNoBreak(tk, start, end, i + 1,
                <<IF tk[i].start_offset <= start /\ start < tk[i].end_offset
                  THEN i ELSE idx[1],
                  IF tk[i].start_offset < end /\ end <= tk[i].end_offset
                  THEN i ELSE idx[2]>>)

\* a variant aligning a boundary with the token that contains it
FindTokensFuzzy(tk, a) == ScanLoopNoBreak(tk, a[1], a[2], 1, <<None, None>>)

\* <<start_token_idx, end_token_idx>> of one annotation
FindTokens(tk, a) == ScanLoop(tk, a[1], a[2], 1, None)

\* one iteration of "for start, end, entity_type in annotation"
AssignAnnotation(tk, lbls, a) ==
    LET idx == FindTokens(tk, a)
    IN  IF idx[1] # None /\ idx[2] # None
        THEN [i \in 1..Len(lbls) |->
                IF idx[1] <= i /\ i <= idx[2] THEN a[3] ELSE lbls[i]]
        ELSE lbls

RECURSIVE AnnotationLoop(_, _, _, _)
AnnotationLoop(tk, anns, k, lbls) ==
    IF k > Len(anns) THEN lbls
    ELSE AnnotationLoop(tk, anns, k + 1, AssignAnnotation(tk, lbls, anns[k]))

\* token_level_annotations after the first k annotations
LabelsAfter(tk, anns, k) ==
    AnnotationLoop(tk, SubSeq(anns, 1, k), 1, [i \in 1..Len(tk) |-> "O"])

\* <<token_level_annotations, token_level_annotations_iobes>>, or the
\* assertion that failed
convert_to_token_level(tk, anns) ==
    LET lbls == LabelsAfter(tk, anns, Len(anns))
        iobes == _convert_to_iobes(lbls)
    IN  IF Len(tk) # Len(lbls) THEN <<"AssertionError", lbls, <<>>>>
        ELSE IF Len(lbls) # Len(iobes) THEN <<"AssertionError", lbls, iobes>>
        ELSE <<"done", lbls, iobes>>

\* ------------------------------------------------- NERDataset.__init__
\* dict assignment d[k] = v
Put(d, k, v) == (k :> v) @@ d

\* the loop "for i, tag in enumerate(tags)", at Python index i = k - 1
RECURSIVE TagsLoop(_, _, _)
TagsLoop(tgs, k, d) ==
    IF k > Len(tgs) THEN d
    ELSE LET i == k - 1
             tag == tgs[k]
             d1 == Put(d, "S-" \o tag, 4 * i + 1)
             d2 == Put(d1, "B-" \o tag, 4 * i + 2)
             d3 == Put(d2, "I-" \o tag, 4 * i + 3)
             d4 == Put(d3, "E-" \o tag, 4 * i + 4)
         IN  TagsLoop(tgs, k + 1, d4)

\* self.tags2id
BuildTags2id(tgs) == Put(TagsLoop(tgs, 1, <<>>), "O", 0)

\* self.id2tags = {v: k for k, v in self.tags2id.items()}
BuildId2tags(d) ==
    [v \in {d[k] : k \in DOMAIN d} |-> CHOOSE k \in DOMAIN d : d[k] = v]

\* ------------------------------------------ NERDataset.convert_ids_to_tags
convert_ids_to_tags(i2t, xs) ==
    [n \in 1..Len(xs) |-> IF xs[n] \in DOMAIN i2t THEN i2t[xs[n]] ELSE "O"]

\* --------------------------------------------- NERDataset._truncate_output
\* self.tokenizer.convert_tokens_to_ids("[SEP]") and two other token ids
SepId == 102
ClsId == SepId - 1
WordId == SepId + 1

\* a variant that leaves the last id as truncation left it
_truncate_output_keep_last(smp, maxlen, md, ra) ==
    LET input_ids == SlicePrefix(smp[1], maxlen)
        token_type_ids == SlicePrefix(smp[2], maxlen)
    IN  IF Len(input_ids) = 0 THEN <<"IndexError", <<>>>>
        ELSE IF md = "dev"
        THEN <<"done", <<input_ids, token_type_ids>>
                        \o (IF ra THEN SliceFrom(smp, 2) ELSE <<>>)>>
        ELSE <<"done", <<input_ids, token_type_ids, SlicePrefix(smp[3], maxlen)>>
                        \o (IF ra THEN SliceFrom(smp, 3) ELSE <<>>)>>

\* <<"done", res>>, or <<"IndexError", <<>>>> when input_ids[-1] is read from
\* an empty list
_truncate_output(smp, maxlen, md, ra) ==
    LET input_ids0 == SlicePrefix(smp[1], maxlen)
        token_type_ids == SlicePrefix(smp[2], maxlen)
        sep_token == SepId
    IN  IF Len(input_ids0) = 0 THEN <<"IndexError", <<>>>>
        ELSE LET input_ids ==
                    IF input_ids0[Len(input_ids0)] # sep_token
                    THEN [input_ids0 EXCEPT ![Len(input_ids0)] = sep_token]
                    ELSE input_ids0
             IN  IF md = "dev"
                 THEN <<"done", <<input_ids, token_type_ids>>
                                 \o (IF ra THEN SliceFrom(smp, 2) ELSE <<>>)>>
                 ELSE LET tags_ids == SlicePrefix(smp[3], maxlen)
                      IN  <<"done", <<input_ids, token_type_ids, tags_ids>>
                                     \o (IF ra THEN SliceFrom(smp, 3) ELSE <<>>)>>

\* ---------------------------------------------------- NERDataset.__init__
\* the default of the max_length parameter
DefaultMaxLength == 128

\* ------------------------------------------------ NERDataset.__getitem__
\* the tokenizer's input_ids for the tokens tk: [CLS], word ids, [SEP]
TokenizerInputIds(tk) ==
    [i \in 1..Len(tk) |->
        IF tk[i].special_token = 1
        THEN (IF i = 1 THEN ClsId ELSE SepId)
        ELSE WordId]

TokenizerTokenTypeIds(tk) == [i \in 1..Len(tk) |-> 0]

\* the auxiliary fields of a sample: text, tokens, special_tokens_mask, offsets
AuxFields == <<"text", "tokens", "special_tokens_mask", "offsets">>

\* the sample __getitem__ returns, r being _truncate_output's outcome:
\* <<outcome, parsed_annotations, token_level_tags, result, labels>>, labels
\* being convert_to_token_level's token_level_annotations
GetItemResult(parsed, token_level_tags, lbls, r) ==
    <<r[1], parsed, token_level_tags, r[2], lbls>>

\* lines 109-120: the tag ids of token_level_tags, then the truncated sample;
\* c is convert_to_token_level's outcome for parsed
GetItemTags(tk, parsed, c, t2i, maxlen, md, ra) ==
    IF c[1] # "done" THEN <<c[1], parsed, <<>>, <<>>, c[2]>>
    ELSE IF \E n \in 1..Len(c[3]) : c[3][n] \notin DOMAIN t2i
    THEN <<"KeyError", parsed, c[3], <<>>, c[2]>>
    ELSE GetItemResult(parsed, c[3], c[2],
           _truncate_output(
               <<TokenizerInputIds(tk), TokenizerTokenTypeIds(tk),
                 [n \in 1..Len(c[3]) |-> t2i[c[3][n]]]>> \o AuxFields,
               maxlen, md, ra))

\* lines 105-107: parsed is parse_annotations' filtered list.  (The value of
\* each call is bound once, to the one element of a set.)
GetItemTrain(tk, parsed, t2i, maxlen, md, ra) ==
    CHOOSE g \in {GetItemTags(tk, parsed, c, t2i, maxlen, md, ra) :
                     c \in {convert_to_token_level(tk, parsed)}} : TRUE

\* lines 87-120
GetItemOf(tk, anns, t2i, maxlen, md, ra) ==
    IF md = "dev"
    THEN GetItemResult(<<>>, <<>>, <<>>,
           _truncate_output(
               <<TokenizerInputIds(tk), TokenizerTokenTypeIds(tk)>> \o AuxFields,
               maxlen, md, ra))
    ELSE CHOOSE g \in {GetItemTrain(tk, p[1], t2i, maxlen, md, ra) :
                          p \in {parse_annotations(anns, TRUE)}} : TRUE

\* ---------------------------------------------------------- collate_batch
\* xs += [0] * (n - len(xs))
PadTo(xs, n) == xs \o [i \in 1..(n - Len(xs)) |-> 0]

RECURSIVE MaxLen0(_, _)
MaxLen0(b, k) ==
    IF k = Len(b) THEN Len(b[k][1])
    ELSE Max(Len(b[k][1]), MaxLen0(b, k + 1))

\* the loop "for sample in batch":
\* <<input_ids_list, token_type_ids_list, tags_ids_list>>
RECURSIVE CollateLoop(_, _, _, _)
CollateLoop(b, k, m, lists) ==
    IF k > Len(b) THEN lists
    ELSE LET smp == b[k]
             input_ids == PadTo(smp[1], m)
             token_type_ids == PadTo(smp[2], m)
         IN  CollateLoop(b, k + 1, m,
                <<Append(lists[1], input_ids),
                  Append(lists[2], token_type_ids),
                  IF Len(smp) = 3
                  THEN Append(lists[3], PadTo(smp[3], m))
                  ELSE lists[3]>>)

\* torch.stack(rows, dim=0) needs rows of one length
Stackable(rows) == \A i, j \in 1..Len(rows) : Len(rows[i]) = Len(rows[j])

\* <<outcome, output>>
collate_batch(b) ==
    IF Len(b) = 0 THEN <<"ValueError", <<>>>>
    ELSE LET m == MaxLen0(b, 1)
             lists == CollateLoop(b, 1, m, <<<<>>, <<>>, <<>>>>)
         IN  IF ~Stackable(lists[1]) \/ ~Stackable(lists[2])
             THEN <<"RuntimeError", <<>>>>
             ELSE IF Len(lists[3]) > 0
             THEN (IF ~Stackable(lists[3]) THEN <<"RuntimeError", <<>>>>
                   ELSE <<"done", <<lists[1], lists[2], lists[3]>>>>)
             ELSE <<"done", <<lists[1], lists[2]>>>>

\* ================================================================ inputs
\* word tokens of a text of MaxOffset characters: non-empty spans, in
\* increasing order, not overlapping
WordSpans == {w \in (0..MaxOffset) \X (0..MaxOffset) : w[1] < w[2]}

WordSeqs ==
    {w \in SeqsUpTo(WordSpans, MaxTok) :
        \A i \in 1..(Len(w) - 1) : w[i][2] <= w[i + 1][1]}

\* the tokenizer's output for one text: [CLS], the word tokens, [SEP];
\* special tokens carry the offset (0, 0)
Tokenize(w) ==
    <<Token(1, 0, 0)>> \o [i \in 1..Len(w) |-> Token(0, w[i][1], w[i][2])]
                       \o <<Token(1, 0, 0)>>

Tokenizations == {Tokenize(w) : w \in WordSeqs}

\* the lines of ner_tags.txt: read().split('\n') yields at least one line,
\* and an empty line where the file ends with a newline
TagFiles == SeqsUpTo(Types \cup {""}, MaxTypes) \ {<<>>}

\* the entity types of the train pipeline
TagList == <<"PER", "LOC">>

\* ids given to convert_ids_to_tags: every id a vocabulary of MaxTypes
\* names can hold, and one below and one above
SomeIds == (0 - 1)..(4 * MaxTypes + 1)

\* samples given to _truncate_output: positionally aligned id lists
TrainSamples ==
    UNION {[1..3 -> [1..n -> {0, 1}]] : n \in 0..MaxSeq}

IdsOf(bits) == [i \in 1..Len(bits) |-> IF bits[i] = 1 THEN SepId ELSE WordId]

SampleOf(b, md) ==
    IF md = "dev" THEN <<IdsOf(b[1]), b[2]>> \o AuxFields
    ELSE <<IdsOf(b[1]), b[2], b[3]>> \o AuxFields

\* samples given to collate_batch: results of _truncate_output, so the last
\* input id is [SEP]; 2 fields (dev), 3 (train), or those and the auxiliary
\* fields (return_all)
BatchRow(n) == [i \in 1..n |-> IF i = n THEN SepId ELSE WordId]
Zeros(n) == [i \in 1..n |-> 0]

BatchSamples ==
    UNION {
        {<<BatchRow(n), Zeros(n)>>, <<BatchRow(n), Zeros(n)>> \o AuxFields}
        \cup {<<BatchRow(n), Zeros(n), t>> : t \in [1..n -> {0, 1}]}
        \cup {<<BatchRow(n), Zeros(n), t>> \o AuxFields : t \in [1..n -> {0, 1}]}
        : n \in 1..MaxRow}

\* ================================================================ states
ParseIdle ==
    /\ annotations = <<>>
    /\ sort = TRUE
    /\ filtered_annotations = <<>>
    /\ parsed_annotations = <<>>

AlignIdle ==
    /\ tok = <<>>
    /\ annotation = <<>>
    /\ token_level_annotations = <<>>
    /\ token_level_annotations_iobes = <<>>

IobesIdle == labels = <<>> /\ iobes_tags = <<>>

VocabIdle ==
    /\ tags = <<>>
    /\ tags2id = <<>>
    /\ id2tags = <<>>
    /\ ids = <<>>
    /\ tag_names = <<>>

TruncIdle ==
    /\ sample = <<>>
    /\ max_length = DefaultMaxLength
    /\ mode = "train"
    /\ return_all = FALSE
    /\ res = <<>>

CollateIdle == batch = <<>> /\ output = <<>>

\* ----------------------------------------------------- parse_annotations
InitParse ==
    /\ pc = "parse_annotations"
    /\ annotations \in SeqsUpTo(AllAnnotations(MaxPos), MaxAnn)
    /\ sort \in BOOLEAN
    /\ filtered_annotations = <<>>
    /\ parsed_annotations = <<>>
    /\ AlignIdle /\ IobesIdle /\ VocabIdle /\ TruncIdle /\ CollateIdle

ParseAnnotations ==
    /\ pc = "parse_annotations"
    /\ pc' = "done"
    /\ \E r \in {parse_annotations(annotations, sort)} :
          /\ filtered_annotations' = r[1]
          /\ parsed_annotations' = r[2]
    /\ UNCHANGED <<annotations, sort>>
    /\ UNCHANGED <<alignVars, iobesVars, vocabVars, truncVars, collateVars>>

SpecParse == InitParse /\ [][ParseAnnotations]_vars

\* ------------------------------------------------ convert_to_token_level
InitAlign ==
    /\ pc = "convert_to_token_level"
    /\ tok \in Tokenizations
    /\ annotation \in SeqsUpTo(AllAnnotations(MaxOffset), MaxEntities)
    /\ token_level_annotations = <<>>
    /\ token_level_annotations_iobes = <<>>
    /\ ParseIdle /\ IobesIdle /\ VocabIdle /\ TruncIdle /\ CollateIdle

ConvertToTokenLevel ==
    /\ pc = "convert_to_token_level"
    /\ \E c \in {convert_to_token_level(tok, annotation)} :
          /\ pc' = c[1]
          /\ token_level_annotations' = c[2]
          /\ token_level_annotations_iobes' = c[3]
    /\ UNCHANGED <<tok, annotation>>
    /\ UNCHANGED <<parseVars, iobesVars, vocabVars, truncVars, collateVars>>

SpecAlign == InitAlign /\ [][ConvertToTokenLevel]_vars

\* ----------------------------------------------------- _convert_to_iobes
InitIobes ==
    /\ pc = "_convert_to_iobes"
    /\ labels \in SeqsUpTo(Types \cup {"O"}, MaxLabels)
    /\ iobes_tags = <<>>
    /\ ParseIdle /\ AlignIdle /\ VocabIdle /\ TruncIdle /\ CollateIdle

ConvertToIobes ==
    /\ pc = "_convert_to_iobes"
    /\ pc' = "done"
    /\ iobes_tags' = _convert_to_iobes(labels)
    /\ UNCHANGED labels
    /\ UNCHANGED <<parseVars, alignVars, vocabVars, truncVars, collateVars>>

SpecIobes == InitIobes /\ [][ConvertToIobes]_vars

\* ------------------------------------- __init__ and convert_ids_to_tags
InitVocab ==
    /\ pc = "__init__"
    /\ tags \in TagFiles
    /\ tags2id = <<>>
    /\ id2tags = <<>>
    /\ ids = <<>>
    /\ tag_names = <<>>
    /\ ParseIdle /\ AlignIdle /\ IobesIdle /\ TruncIdle /\ CollateIdle

\* lines 54-66 of __init__: no line rejects a list of tags
Construct ==
    /\ pc = "__init__"
    /\ pc' = "constructed"
    /\ \E d \in {BuildTags2id(tags)} :
          /\ tags2id' = d
          /\ id2tags' = BuildId2tags(d)
    /\ UNCHANGED <<tags, ids, tag_names>>
    /\ UNCHANGED <<parseVars, alignVars, iobesVars, truncVars, collateVars>>

ConvertIdsToTags ==
    /\ pc = "constructed"
    /\ pc' = "converted"
    /\ \E xs \in SeqsUpTo(SomeIds, MaxIds) :
          /\ ids' = xs
          /\ tag_names' = convert_ids_to_tags(id2tags, xs)
    /\ UNCHANGED <<tags, tags2id, id2tags>>
    /\ UNCHANGED <<parseVars, alignVars, iobesVars, truncVars, collateVars>>

NextVocab == Construct \/ ConvertIdsToTags

SpecVocab == InitVocab /\ [][NextVocab]_vars

\* ------------------------------------------------------ _truncate_output
InitTrunc ==
    /\ pc = "_truncate_output"
    /\ mode \in {"train", "dev"}
    /\ return_all \in BOOLEAN
    /\ max_length \in 0..MaxLength
    /\ \E b \in TrainSamples : sample = SampleOf(b, mode)
    /\ res = <<>>
    /\ ParseIdle /\ AlignIdle /\ IobesIdle /\ VocabIdle /\ CollateIdle

TruncateOutput ==
    /\ pc = "_truncate_output"
    /\ \E r \in {_truncate_output(sample, max_length, mode, return_all)} :
          pc' = r[1] /\ res' = r[2]
    /\ UNCHANGED <<sample, max_length, mode, return_all>>
    /\ UNCHANGED <<parseVars, alignVars, iobesVars, vocabVars, collateVars>>

SpecTrunc == InitTrunc /\ [][TruncateOutput]_vars

\* --------------------------------------------------------- collate_batch
InitCollate ==
    /\ pc = "collate_batch"
    /\ batch \in (SeqsUpTo(BatchSamples, MaxBatch) \ {<<>>})
    /\ output = <<>>
    /\ ParseIdle /\ AlignIdle /\ IobesIdle /\ VocabIdle /\ TruncIdle

CollateBatch ==
    /\ pc = "collate_batch"
    /\ \E r \in {collate_batch(batch)} :
          pc' = r[1] /\ output' = r[2]
    /\ UNCHANGED batch
    /\ UNCHANGED <<parseVars, alignVars, iobesVars, vocabVars, truncVars>>

SpecCollate == InitCollate /\ [][CollateBatch]_vars

\* ------------------------------------------- __getitem__, mode = 'train'
\* the state after NERDataset(mode='train'): the default max_length and
\* return_all, the vocabulary of TagList; then one text of the dataset
InitGetItem ==
    /\ pc = "__getitem__"
    /\ mode = "train"
    /\ max_length = DefaultMaxLength
    /\ return_all = FALSE
    /\ tags = TagList
    /\ tags2id = BuildTags2id(TagList)
    /\ id2tags = BuildId2tags(BuildTags2id(TagList))
    /\ ids = <<>>
    /\ tag_names = <<>>
    /\ tok \in Tokenizations
    /\ annotations \in SeqsUpTo(AllAnnotations(MaxOffset), MaxEntities)
    /\ sort = TRUE
    /\ filtered_annotations = <<>>
    /\ parsed_annotations = <<>>
    /\ annotation = <<>>
    /\ token_level_annotations = <<>>
    /\ token_level_annotations_iobes = <<>>
    /\ sample = <<>>
    /\ res = <<>>
    /\ IobesIdle /\ CollateIdle

\* filtered_annotations holds __getitem__'s parsed_annotations, and
\* token_level_annotations_iobes its token_level_tags
GetItem ==
    /\ pc = "__getitem__"
    /\ \E g \in {GetItemOf(tok, annotations, tags2id, max_length, mode, return_all)} :
          /\ pc' = g[1]
          /\ filtered_annotations' = g[2]
          /\ annotation' = g[2]
          /\ token_level_annotations_iobes' = g[3]
          /\ res' = g[4]
          /\ token_level_annotations' = g[5]
    /\ UNCHANGED <<annotations, sort, parsed_annotations, tok, sample,
                   max_length, mode, return_all>>
    /\ UNCHANGED <<iobesVars, vocabVars, collateVars>>

SpecGetItem == InitGetItem /\ [][GetItem]_vars

\* ================================================================ claims
InFiltered(a) == a \in Range(filtered_annotations)

\* C1: whatever the input list and the sort flag, no two distinct entries of
\* the filtered list overlap in the closed-interval sense (a0 <= b0 <= a1 or
\* b0 <= a0 <= b1); two spans that share a boundary offset are never both
\* kept.
C1_NoAcceptedPairOverlaps ==
    pc = "done" =>
        \A i, j \in 1..Len(filtered_annotations) :
            i # j =>
                LET a == filtered_annotations[i]
                    b == filtered_annotations[j]
                IN  /\ ~(a[1] <= b[1] /\ b[1] <= a[2])
                    /\ ~(b[1] <= a[1] /\ a[1] <= b[2])
                    /\ a[2] # b[1]
                    /\ b[2] # a[1]

\* two input spans touch at one boundary offset; one is kept, together with
\* another annotation, and the other is rejected
C1_Witness ==
    /\ pc = "done"
    /\ Len(filtered_annotations) >= 2
    /\ \E i, j \in 1..Len(annotations) :
          /\ annotations[i][1] < annotations[i][2]
          /\ annotations[i][2] = annotations[j][1]
          /\ annotations[j][1] < annotations[j][2]
          /\ InFiltered(annotations[i])
          /\ ~InFiltered(annotations[j])

\* C2 as stated: of two overlapping input annotations of different length
\* the shorter is in the filtered output and the longer is not.
C2_ShorterAlwaysRetained ==
    pc = "done" =>
        \A i, j \in 1..Len(annotations) :
            LET a == annotations[i]
                b == annotations[j]
            IN  (_overlap(a, b) /\ SpanLength(a) < SpanLength(b)) =>
                    (InFiltered(a) /\ ~InFiltered(b))

\* C2 (amended): of two overlapping input annotations of different length
\* the two are never both retained; the shorter is retained unless it
\* overlaps a retained annotation that is no longer than it; and when the
\* input holds just these two annotations the shorter is retained and the
\* longer is not, in either input order.
C2_ShorterPrecedence ==
    pc = "done" =>
        \A i, j \in 1..Len(annotations) :
            LET a == annotations[i]
                b == annotations[j]
            IN  (_overlap(a, b) /\ SpanLength(a) < SpanLength(b)) =>
                    /\ ~(InFiltered(a) /\ InFiltered(b))
                    /\ ~InFiltered(a) =>
                          \E c \in Range(filtered_annotations) :
                              /\ SpanLength(c) <= SpanLength(a)
                              /\ _overlap(a, c)
                    /\ Len(annotations) = 2 =>
                          (InFiltered(a) /\ ~InFiltered(b))

\* the input is a longer annotation followed by a shorter one it overlaps;
\* the shorter is retained and the longer is not
C2_Witness ==
    /\ pc = "done"
    /\ Len(annotations) = 2
    /\ _overlap(annotations[1], annotations[2])
    /\ SpanLength(annotations[2]) < SpanLength(annotations[1])
    /\ filtered_annotations = <<annotations[2]>>

\* the non-special tokens whose offset starts at s / ends at e
StartMatches(tk, s) ==
    {i \in 1..Len(tk) : tk[i].special_token # 1 /\ tk[i].start_offset = s}
EndMatches(tk, e) ==
    {i \in 1..Len(tk) : tk[i].special_token # 1 /\ tk[i].end_offset = e}

\* C3: each annotation (start, end, type) labels tokens only by exact
\* boundary match.  When a non-special token starts at start and one ends at
\* end, the positions from the first to the second, inclusive, get the type
\* and no other label changes; when either boundary has no exact match, the
\* annotation changes no label.
C3_ExactBoundaryMatch ==
    pc = "done" =>
        /\ token_level_annotations =
              LabelsAfter(tok, annotation, Len(annotation))
        /\ \A k \in 1..Len(annotation) :
              LET a == annotation[k]
                  before == LabelsAfter(tok, annotation, k - 1)
                  after == LabelsAfter(tok, annotation, k)
                  sm == StartMatches(tok, a[1])
                  em == EndMatches(tok, a[2])
              IN  IF sm # {} /\ em # {}
                  THEN \E i \in sm, j \in em :
                          after = [n \in 1..Len(tok) |->
                                      IF i <= n /\ n <= j THEN a[3]
                                      ELSE before[n]]
                  ELSE after = before

\* one annotation matched both boundaries and labelled two tokens or more,
\* another one had a boundary inside a token and labelled nothing
C3_Witness ==
    /\ pc = "done"
    /\ \E k, l \in 1..Len(annotation) :
          /\ StartMatches(tok, annotation[k][1]) # {}
          /\ EndMatches(tok, annotation[k][2]) # {}
          /\ Cardinality({n \in 1..Len(tok) :
                 token_level_annotations[n] = annotation[k][3]}) >= 2
          /\ StartMatches(tok, annotation[l][1]) # {}
          /\ EndMatches(tok, annotation[l][2]) = {}
          /\ annotation[l][3] \notin Range(token_level_annotations)

\* C4: convert_to_token_level passes both of its assertions on every call
\* and returns one tag per token.
C4_AlignmentLength ==
    /\ pc # "AssertionError"
    /\ pc = "done" =>
          /\ Len(token_level_annotations) = Len(tok)
          /\ Len(token_level_annotations_iobes) = Len(token_level_annotations)
          /\ Len(token_level_annotations_iobes) = Len(tok)

\* a call with word tokens, where one annotation labelled tokens and another
\* was dropped
C4_Witness ==
    /\ pc = "done"
    /\ Len(tok) >= 4
    /\ Len(annotation) = 2
    /\ \E n \in 1..Len(tok) : token_level_annotations_iobes[n] # "O"
    /\ \E k \in 1..Len(annotation) :
          EndMatches(tok, annotation[k][2]) = {}

\* C5: _convert_to_iobes returns one tag per label; at position i with label
\* L the tag is "O" when L is "O", and otherwise S-L, B-L, E-L or I-L as i
\* starts and ends a run of L, only starts one, only ends one, or neither.
C5_IobesEncoding ==
    pc = "done" =>
        /\ Len(iobes_tags) = Len(labels)
        /\ \A i \in 1..Len(labels) :
              LET L == labels[i]
                  startOfRun == i = 1 \/ labels[i - 1] # L
                  endOfRun == i = Len(labels) \/ labels[i + 1] # L
              IN  iobes_tags[i] =
                      IF L = "O" THEN "O"
                      ELSE IF startOfRun /\ endOfRun THEN "S-" \o L
                      ELSE IF startOfRun THEN "B-" \o L
                      ELSE IF endOfRun THEN "E-" \o L
                      ELSE "I-" \o L
        /\ labels = <<"PER">> => iobes_tags = <<"S-PER">>
        /\ labels = <<"O", "LOC", "O">> => iobes_tags = <<"O", "S-LOC", "O">>

\* a run of three labels: begin, inside, end
C5_Witness ==
    /\ pc = "done"
    /\ labels = <<"PER", "PER", "PER">>
    /\ iobes_tags = <<"B-PER", "I-PER", "E-PER">>

Constructed == pc \in {"constructed", "converted"}

NoDuplicates(xs) == \A i, j \in 1..Len(xs) : xs[i] = xs[j] => i = j

\* the tags of a list of entity type names
TagsOf(tgs) ==
    {"O"} \cup {p \o tgs[k] : p \in {"S-", "B-", "I-", "E-"}, k \in 1..Len(tgs)}

\* C6: for the vocabulary built from the list tags, id(O) = 0 and the type at
\* Python index i has id(S-T) = 4i+1, id(B-T) = 4i+2, id(I-T) = 4i+3 and
\* id(E-T) = 4i+4; convert_ids_to_tags inverts the mapping on every valid
\* tag and maps every other id to "O".
C6_VocabularyIds ==
    Constructed =>
        /\ tags2id["O"] = 0
        /\ \A k \in 1..Len(tags) :
              /\ tags2id["S-" \o tags[k]] = 4 * (k - 1) + 1
              /\ tags2id["B-" \o tags[k]] = 4 * (k - 1) + 2
              /\ tags2id["I-" \o tags[k]] = 4 * (k - 1) + 3
              /\ tags2id["E-" \o tags[k]] = 4 * (k - 1) + 4
        /\ \A t \in TagsOf(tags) :
              convert_ids_to_tags(id2tags, <<tags2id[t]>>) = <<t>>
        /\ pc = "converted" =>
              \A n \in 1..Len(ids) :
                  (\A t \in TagsOf(tags) : tags2id[t] # ids[n]) =>
                      tag_names[n] = "O"

\* C7: construction fails when the list of entity type names is empty or
\* holds a name twice, so no vocabulary exists for such a list.
C7_ConstructionRejectsBadList ==
    Constructed => (Len(tags) > 0 /\ NoDuplicates(tags))

IsPrefixOf(xs, ys) == Len(xs) <= Len(ys) /\ xs = SubSeq(ys, 1, Len(xs))

\* C8: when _truncate_output returns, the last input id is the [SEP] id;
\* input_ids, token_type_ids and tag_ids are the prefixes of their inputs of
\* min(length, max_length) elements, input_ids but for its last position.
\* The call does not return (IndexError) only when that prefix is empty.
C8_TruncationEndToken ==
    /\ pc = "IndexError" => Min(Len(sample[1]), max_length) = 0
    /\ pc = "done" =>
        LET n == Min(Len(sample[1]), max_length)
        IN  /\ Len(res[1]) = n
            /\ res[1][Len(res[1])] = SepId
            /\ \A i \in 1..(n - 1) : res[1][i] = sample[1][i]
            /\ Len(res[2]) = Min(Len(sample[2]), max_length)
            /\ IsPrefixOf(res[2], sample[2])
            /\ mode # "dev" =>
                  /\ Len(res[3]) = Min(Len(sample[3]), max_length)
                  /\ IsPrefixOf(res[3], sample[3])

\* truncation cut the sequence before its end, at an id that is not [SEP],
\* and the last id was overwritten
C8_Witness ==
    /\ pc = "done"
    /\ mode = "train"
    /\ max_length < Len(sample[1])
    /\ sample[1][max_length] # SepId
    /\ res[1][max_length] = SepId
    /\ Len(res[3]) = max_length

\* the samples that carry a tag-id field: 3 fields, or 3 and the auxiliary
HasTagIds(smp) == Len(smp) = 3 \/ Len(smp) = 3 + Len(AuxFields)

\* C9: collate_batch returns a tag array only when every sample of the batch
\* has a tag-id field, and then the tag array has one row per sample, each
\* row padded with 0 to the longest input_ids of the batch.
C9_TagsOnlyWhenEverySampleHasThem ==
    (pc = "done" /\ Len(output) = 3) =>
        /\ \A k \in 1..Len(batch) : HasTagIds(batch[k])
        /\ Len(output[3]) = Len(batch)
        /\ Len(output[3]) = Len(output[1])
        /\ \A k \in 1..Len(output[3]) :
              Len(output[3][k]) = MaxLen0(batch, 1)

\* the tokenizer's contract: the non-special tokens are non-empty spans in
\* increasing order that do not overlap
WellFormed(tk) ==
    \A i, j \in 1..Len(tk) :
        (tk[i].special_token # 1 /\ tk[j].special_token # 1) =>
            /\ tk[i].start_offset < tk[i].end_offset
            /\ i < j => tk[i].end_offset <= tk[j].start_offset

\* the token positions an annotation labels
TokenRange(tk, a) ==
    {n \in 1..Len(tk) :
        \E i \in StartMatches(tk, a[1]), j \in EndMatches(tk, a[2]) :
            i <= n /\ n <= j}

\* C10: in the train pipeline, with well-formed token offsets, the token
\* ranges of distinct accepted annotations are pairwise disjoint and no
\* annotation overwrites a label set by an earlier one.
C10_NoLabelOverwritten ==
    (pc = "done" /\ WellFormed(tok)) =>
        /\ \A k, l \in 1..Len(filtered_annotations) :
              k # l =>
                  TokenRange(tok, filtered_annotations[k])
                      \cap TokenRange(tok, filtered_annotations[l]) = {}
        /\ \A k \in 1..Len(filtered_annotations) :
              LET before == LabelsAfter(tok, filtered_annotations, k - 1)
                  after == AssignAnnotation(tok, before, filtered_annotations[k])
              IN  \A n \in 1..Len(tok) :
                      before[n] # "O" => after[n] = before[n]
        /\ \A n \in 1..Len(tok) :
              token_level_annotations[n] # "O" =>
                  Cardinality({k \in 1..Len(filtered_annotations) :
                      n \in TokenRange(tok, filtered_annotations[k])}) = 1

\* two accepted annotations both aligned with tokens, and the tags name both
C10_Witness ==
    /\ pc = "done"
    /\ Len(filtered_annotations) = 2
    /\ TokenRange(tok, filtered_annotations[1]) # {}
    /\ TokenRange(tok, filtered_annotations[2]) # {}
    /\ filtered_annotations[1][3] # filtered_annotations[2][3]
    /\ "S-" \o filtered_annotations[1][3] \in Range(token_level_annotations_iobes)
    /\ "S-" \o filtered_annotations[2][3] \in Range(token_level_annotations_iobes)
    /\ Len(res) = 3
====
